---- MODULE Spec2Model ----
(***************************************************************************)
(* Model of src/src/win_permissions.rs: construction and teardown of the   *)
(* native resources behind SecurityAttributes (descriptor buffer, ACLs,    *)
(* Sid).  Every OS call is one step of the calling thread; its success or  *)
(* failure is chosen by the OS.  Values are dropped by Rust's drop glue,   *)
(* one Drop implementation per step, in the order the language fixes       *)
(* (locals in reverse order of declaration, fields in declaration order).  *)
(* A panic unwinds (the default panic strategy) and drops the locals that  *)
(* are alive at the panicking call.                                        *)
(***************************************************************************)
EXTENDS Integers, Sequences, FiniteSets, TLC

\* Number of constructions the threads may start, all together.
MaxCycles == 2

\* Number of times, all together, a destruction routine is run again on a
\* value that has been dropped.
MaxRedrops == 1

\* The threads that build facades independently of each other.
Threads == {"t1", "t2"}

\* Non-zero codes the OS may report for a failing call.
ErrCodes == {5, 8}

\* A native address is [t, n]: the n-th allocation served to thread t (the
\* allocators never hand out an address twice in the model); NULL is the
\* null pointer.
NULL == [t |-> "null", n |-> 0]

VARIABLES
    pc,              \* where each thread is
    cycles,          \* constructions started by each thread
    op,              \* the entry point the thread called
    permissions,     \* argument of allow_everyone
    heap,            \* heap[t]: the native allocations served to thread t
    lastError,       \* the thread's OS last-error value (GetLastError)
    descriptor_ptr,  \* SecurityDescriptor.descriptor_ptr of the thread's bundle
    acl_ptr,         \* Acl.acl_ptr of the thread's bundle
    attrs,           \* InnerAttributes.attrs of the thread's bundle
    sid_ptr,         \* Sid.sid_ptr of the local `sid`
    entries,         \* the local `entries` of allow_everyone
    new_acl,         \* the Acl returned by Acl::new, not yet assigned
    attributes,      \* SecurityAttributes.attributes: "None", "Some", "absent"
    result,          \* how the call ended: "Ok", "Err", "Panic", or "none"
    err,             \* the io::Error returned (or carried by the panic)
    dropq,           \* values the drop glue still has to drop, in order
    ret,             \* where the thread goes when the drop glue is done
    calls,           \* history: the OS calls of the current construction
    failed,          \* history: the failing step and what the OS reported
    leaked,          \* history: allocations of earlier calls never released
    runs,            \* history: runs of Drop::drop on the call's Sid and descriptor
    ptr              \* what the last as_ptr call returned

vars == << pc, cycles, op, permissions, heap, lastError, descriptor_ptr,
           acl_ptr, attrs, sid_ptr, entries, new_acl, attributes, result,
           err, dropq, ret, calls, failed, leaked, runs, ptr >>

-----------------------------------------------------------------------------
\* Values

NoError == [kind |-> "none", code |-> 0]
NoFailure == [step |-> "none", code |-> 0, lastError |-> 0]
NoAttrs == [nLength |-> "unset", lpSecurityDescriptor |-> NULL, bInheritHandle |-> 0]
UNSET == [t |-> "unset", n |-> 0]
NoRuns == [sid |-> 0, descriptor |-> 0]

\* io::Error::last_os_error(), le being the thread's last-error code.
last_os_error_of(le) == [kind |-> "Os", code |-> le]

\* io::Error::from_raw_os_error(code)
from_raw_os_error(code) == [kind |-> "Os", code |-> code]

\* The permission masks of the two presets, as sets of flag bits.
ConnectMask == {"GENERIC_READ", "FILE_WRITE_DATA"}
CreateMask == {"GENERIC_READ", "GENERIC_WRITE"}

\* Address of the next allocation served to t.
Fresh(t) == [t |-> t, n |-> Len(heap[t]) + 1]

\* A new allocation made by `allocator` for thread t.
Allocation(t, kind, allocator, es) ==
    [kind |-> kind, allocator |-> allocator, call |-> cycles[t],
     live |-> TRUE, frees |-> 0, freedBy |-> {}, initialized |-> FALSE,
     dacl |-> NULL, entries |-> es]

Alloc(h, t, kind, allocator, es) ==
    [h EXCEPT ![t] = Append(@, Allocation(t, kind, allocator, es))]

\* `deallocator` is called on address a.
Free(h, a, deallocator) ==
    [h EXCEPT ![a.t][a.n].live = FALSE,
              ![a.t][a.n].frees = @ + 1,
              ![a.t][a.n].freedBy = @ \cup {deallocator}]

Issue(t, name) == calls' = [calls EXCEPT ![t] = Append(@, name)]

\* History: `step` failed, the OS reporting `code`; le is the thread's
\* last-error value after the call.
Fail(t, step, code, le) ==
    failed' = [failed EXCEPT ![t] = [step |-> step, code |-> code,
                                     lastError |-> le]]

\* The thread leaves the function with `outcome`, after dropping `q`.
Leave(t, outcome, e, q, to) ==
    /\ result' = [result EXCEPT ![t] = outcome]
    /\ err' = [err EXCEPT ![t] = e]
    /\ dropq' = [dropq EXCEPT ![t] = q]
    /\ ret' = [ret EXCEPT ![t] = to]
    /\ pc' = [pc EXCEPT ![t] = IF q = << >> THEN to ELSE "drop"]

\* Variant: the list field declared, and so dropped, before the descriptor.
InnerAttributes_fields_acl_first == << "acl", "descriptor" >>

\* Drop order of the fields of InnerAttributes that have a Drop
\* implementation: declaration order.
InnerAttributes_fields == << "descriptor", "acl" >>

\* Variant: the Sid is not among the values dropped on the way out.
allow_everyone_failure_drops_without_sid == InnerAttributes_fields

\* What allow_everyone drops when it is left after the Sid lookup other than
\* by Ok(attributes): its locals in reverse order of declaration, sid (ahead
\* of it entries and everyone_ace, which release nothing), then attributes.
allow_everyone_failure_drops == << "sid" >> \o InnerAttributes_fields

-----------------------------------------------------------------------------
Init ==
    /\ pc = [t \in Threads |-> "idle"]
    /\ cycles = [t \in Threads |-> 0]
    /\ op = [t \in Threads |-> "none"]
    /\ permissions = [t \in Threads |-> {}]
    /\ heap = [t \in Threads |-> << >>]
    /\ lastError = [t \in Threads |-> 0]
    /\ descriptor_ptr = [t \in Threads |-> NULL]
    /\ acl_ptr = [t \in Threads |-> NULL]
    /\ attrs = [t \in Threads |-> NoAttrs]
    /\ sid_ptr = [t \in Threads |-> NULL]
    /\ entries = [t \in Threads |-> << >>]
    /\ new_acl = [t \in Threads |-> NULL]
    /\ attributes = [t \in Threads |-> "absent"]
    /\ result = [t \in Threads |-> "none"]
    /\ err = [t \in Threads |-> NoError]
    /\ dropq = [t \in Threads |-> << >>]
    /\ ret = [t \in Threads |-> "idle"]
    /\ calls = [t \in Threads |-> << >>]
    /\ failed = [t \in Threads |-> NoFailure]
    /\ leaked = [t \in Threads |-> 0]
    /\ runs = [t \in Threads |-> NoRuns]
    /\ ptr = [t \in Threads |-> UNSET]

\* The allocations served to t that have not been released.
Live(t) == { n \in 1..Len(heap[t]) : heap[t][n].live }

\* Constructions started so far.
RECURSIVE Started(_)
Started(T) ==
    IF T = {} THEN 0
    ELSE LET t == CHOOSE x \in T : TRUE IN cycles[t] + Started(T \ {t})

\* A fresh call: new locals.  No pointer of the previous call survives it,
\* so its allocations are forgotten, the unreleased ones counted.
Enter(t, entry, mask, to) ==
    /\ pc[t] = "idle"
    /\ Started(Threads) < MaxCycles
    /\ heap' = [heap EXCEPT ![t] = << >>]
    /\ leaked' = [leaked EXCEPT ![t] = @ + Cardinality(Live(t))]
    /\ cycles' = [cycles EXCEPT ![t] = @ + 1]
    /\ op' = [op EXCEPT ![t] = entry]
    /\ permissions' = [permissions EXCEPT ![t] = mask]
    /\ descriptor_ptr' = [descriptor_ptr EXCEPT ![t] = NULL]
    /\ acl_ptr' = [acl_ptr EXCEPT ![t] = NULL]
    /\ attrs' = [attrs EXCEPT ![t] = NoAttrs]
    /\ sid_ptr' = [sid_ptr EXCEPT ![t] = NULL]
    /\ entries' = [entries EXCEPT ![t] = << >>]
    /\ new_acl' = [new_acl EXCEPT ![t] = NULL]
    /\ err' = [err EXCEPT ![t] = NoError]
    /\ dropq' = [dropq EXCEPT ![t] = << >>]
    /\ ret' = [ret EXCEPT ![t] = "idle"]
    /\ calls' = [calls EXCEPT ![t] = << >>]
    /\ failed' = [failed EXCEPT ![t] = NoFailure]
    /\ runs' = [runs EXCEPT ![t] = NoRuns]
    /\ ptr' = [ptr EXCEPT ![t] = UNSET]
    /\ pc' = [pc EXCEPT ![t] = to]
    /\ UNCHANGED lastError

\* SecurityAttributes::empty()
SecurityAttributes_empty(t) ==
    /\ Enter(t, "empty", {}, "done")
    /\ attributes' = [attributes EXCEPT ![t] = "None"]
    /\ result' = [result EXCEPT ![t] = "Ok"]

\* SecurityAttributes::allow_everyone_connect(), up to its first OS call
allow_everyone_connect(t) ==
    /\ Enter(t, "allow_everyone_connect", ConnectMask, "LocalAlloc")
    /\ attributes' = [attributes EXCEPT ![t] = "absent"]
    /\ result' = [result EXCEPT ![t] = "none"]

\* SecurityAttributes::allow_everyone_create(), up to its first OS call
allow_everyone_create(t) ==
    /\ Enter(t, "allow_everyone_create", CreateMask, "LocalAlloc")
    /\ attributes' = [attributes EXCEPT ![t] = "absent"]
    /\ result' = [result EXCEPT ![t] = "none"]


-----------------------------------------------------------------------------
\* SecurityDescriptor::new, called by InnerAttributes::empty

\* The error returned when LocalAlloc yields null.
SecurityDescriptor_new_alloc_error(le) ==
    [kind |-> "Other", code |-> 0]

\* What SecurityDescriptor::new drops when InitializeSecurityDescriptor
\* fails: the buffer is still a raw pointer, no owning value exists yet.
SecurityDescriptor_new_init_failure_drops == << >>

\* LocalAlloc(LPTR, SECURITY_DESCRIPTOR_MIN_LENGTH) and the null check
SecurityDescriptor_new_LocalAlloc(t) ==
    /\ pc[t] = "LocalAlloc"
    /\ Issue(t, "LocalAlloc")
    /\ \/ /\ heap' = Alloc(heap, t, "descriptor", "LocalAlloc", << >>)
          /\ descriptor_ptr' = [descriptor_ptr EXCEPT ![t] = Fresh(t)]
          /\ pc' = [pc EXCEPT ![t] = "InitializeSecurityDescriptor"]
          /\ UNCHANGED << lastError, failed, result, err, dropq, ret >>
       \/ \E c \in ErrCodes :
          /\ lastError' = [lastError EXCEPT ![t] = c]
          /\ Fail(t, "LocalAlloc", c, c)
          /\ Leave(t, "Err", SecurityDescriptor_new_alloc_error(c), << >>, "done")
          /\ UNCHANGED << heap, descriptor_ptr >>
    /\ UNCHANGED << cycles, op, permissions, leaked, runs, acl_ptr, attrs, sid_ptr, entries,
                    new_acl, attributes, ptr >>

\* Variant: the zeroed record's descriptor reference is never filled in.
InnerAttributes_empty_lpSecurityDescriptor_zeroed(t) == NULL

\* Variant: every record refers to one descriptor kept for the whole
\* process, the one of the first thread.
InnerAttributes_empty_lpSecurityDescriptor_shared(t) ==
    [t |-> "t1", n |-> descriptor_ptr[t].n]

\* The value InnerAttributes::empty stores in attrs.lpSecurityDescriptor.
InnerAttributes_empty_lpSecurityDescriptor(t) == descriptor_ptr[t]

\* InitializeSecurityDescriptor, then (in InnerAttributes::empty) the
\* attributes record
SecurityDescriptor_new_Initialize(t) ==
    /\ pc[t] = "InitializeSecurityDescriptor"
    /\ Issue(t, "InitializeSecurityDescriptor")
    /\ \/ /\ heap' = [heap EXCEPT ![t][descriptor_ptr[t].n].initialized = TRUE]
          /\ attrs' = [attrs EXCEPT ![t] =
                 [nLength |-> "size_of_SECURITY_ATTRIBUTES",
                  lpSecurityDescriptor |-> InnerAttributes_empty_lpSecurityDescriptor(t),
                  bInheritHandle |-> 0]]
          /\ pc' = [pc EXCEPT ![t] = "Acl_empty"]
          /\ UNCHANGED << lastError, failed, result, err, dropq, ret >>
       \/ \E c \in ErrCodes :
          /\ lastError' = [lastError EXCEPT ![t] = c]
          /\ Fail(t, "InitializeSecurityDescriptor", c, c)
          /\ Leave(t, "Err", last_os_error_of(c),
                   SecurityDescriptor_new_init_failure_drops, "done")
          /\ UNCHANGED << heap, attrs >>
    /\ UNCHANGED << cycles, op, permissions, leaked, runs, descriptor_ptr, acl_ptr, sid_ptr,
                    entries, new_acl, attributes, ptr >>

-----------------------------------------------------------------------------
\* Acl::new

\* Variant: Acl::new reads the thread's last-error value instead.
Acl_new_error_last_os_error(status, le) == last_os_error_of(le)

\* The error Acl::new returns when SetEntriesInAclW returns `status`.
Acl_new_error(status, le) == from_raw_os_error(status)

\* Variant: Acl::new wraps its null-initialized local, not what the OS stored.
Acl_new_result_null(p) == NULL

\* The list reference of the Acl that Acl::new returns when the build call
\* reports success and has stored p: Ok(Acl{acl_ptr}), without a null check.
Acl_new_result(p) == p

\* Variant: the failure of Acl::empty() propagated with `?`.
InnerAttributes_empty_acl_failure_propagated == "Err"

\* How InnerAttributes::empty ends when Acl::empty() fails: expect() panics.
InnerAttributes_empty_acl_failure == "Panic"

\* Acl::empty() in InnerAttributes::empty: SetEntriesInAclW with no entries.
\* The call may report success and hand back no list at all.
InnerAttributes_empty_Acl(t) ==
    /\ pc[t] = "Acl_empty"
    /\ Issue(t, "SetEntriesInAclW")
    /\ \/ /\ \/ /\ heap' = Alloc(heap, t, "acl", "SetEntriesInAclW", << >>)
                /\ acl_ptr' = [acl_ptr EXCEPT ![t] = Acl_new_result(Fresh(t))]
             \/ /\ acl_ptr' = [acl_ptr EXCEPT ![t] = Acl_new_result(NULL)]
                /\ UNCHANGED heap
          /\ pc' = [pc EXCEPT ![t] = "everyone_sid"]
          /\ UNCHANGED << failed, result, err, dropq, ret >>
       \/ \E c \in ErrCodes :
          /\ Fail(t, "Acl_empty", c, lastError[t])
          /\ Leave(t, InnerAttributes_empty_acl_failure,
                   Acl_new_error(c, lastError[t]), << "descriptor" >>,
                   IF InnerAttributes_empty_acl_failure = "Panic"
                   THEN "panicked" ELSE "done")
          /\ UNCHANGED << heap, acl_ptr >>
    /\ UNCHANGED << cycles, op, permissions, leaked, runs, lastError, descriptor_ptr, attrs,
                    sid_ptr, entries, new_acl, attributes, ptr >>

-----------------------------------------------------------------------------
\* InnerAttributes::allow_everyone, after Self::empty()

\* Variant: the result of the lookup is not examined and the construction
\* goes on with a null Sid.
Sid_everyone_sid_unchecked(t) ==
    /\ pc[t] = "everyone_sid"
    /\ Issue(t, "AllocateAndInitializeSid")
    /\ \/ /\ heap' = Alloc(heap, t, "sid", "AllocateAndInitializeSid", << >>)
          /\ sid_ptr' = [sid_ptr EXCEPT ![t] = Fresh(t)]
          /\ UNCHANGED << lastError, failed >>
       \/ \E c \in ErrCodes :
          /\ lastError' = [lastError EXCEPT ![t] = c]
          /\ Fail(t, "everyone_sid", c, c)
          /\ UNCHANGED << heap, sid_ptr >>
    /\ pc' = [pc EXCEPT ![t] = "println"]
    /\ UNCHANGED << cycles, op, permissions, leaked, runs, descriptor_ptr,
                    acl_ptr, attrs, entries, new_acl, attributes, ptr,
                    result, err, dropq, ret >>

\* Sid::everyone_sid(): AllocateAndInitializeSid
Sid_everyone_sid(t) ==
    /\ pc[t] = "everyone_sid"
    /\ Issue(t, "AllocateAndInitializeSid")
    /\ \/ /\ heap' = Alloc(heap, t, "sid", "AllocateAndInitializeSid", << >>)
          /\ sid_ptr' = [sid_ptr EXCEPT ![t] = Fresh(t)]
          /\ pc' = [pc EXCEPT ![t] = "println"]
          /\ UNCHANGED << lastError, failed, result, err, dropq, ret >>
       \/ \E c \in ErrCodes :
          /\ lastError' = [lastError EXCEPT ![t] = c]
          /\ Fail(t, "everyone_sid", c, c)
          /\ Leave(t, "Err", last_os_error_of(c), InnerAttributes_fields, "done")
          /\ UNCHANGED << heap, sid_ptr >>
    /\ UNCHANGED << cycles, op, permissions, leaked, runs, descriptor_ptr, acl_ptr, attrs,
                    entries, new_acl, attributes, ptr >>

\* Variant: the entry merges with the existing grants of the trustee.
everyone_ace_grant(t) ==
    [TrusteeForm |-> "TRUSTEE_IS_SID",
     TrusteeType |-> "TRUSTEE_IS_WELL_KNOWN_GROUP",
     ptstrName |-> sid_ptr[t],
     grfAccessMode |-> "GRANT_ACCESS",
     grfAccessPermissions |-> permissions[t],
     grfInheritance |-> 0]

\* AceWithSid::new(&sid, TRUSTEE_IS_WELL_KNOWN_GROUP) and the three setters
everyone_ace(t) ==
    [TrusteeForm |-> "TRUSTEE_IS_SID",
     TrusteeType |-> "TRUSTEE_IS_WELL_KNOWN_GROUP",
     ptstrName |-> sid_ptr[t],
     grfAccessMode |-> "SET_ACCESS",
     grfAccessPermissions |-> permissions[t],
     grfInheritance |-> 0]

\* println!("pisec"), which panics when stdout cannot be written, then the
\* entry and the batch
allow_everyone_println(t) ==
    /\ pc[t] = "println"
    /\ Issue(t, "println")
    /\ \/ /\ entries' = [entries EXCEPT ![t] = << everyone_ace(t) >>]
          /\ pc' = [pc EXCEPT ![t] = "Acl_new"]
          /\ UNCHANGED << failed, result, err, dropq, ret >>
       \/ /\ Fail(t, "println", 0, lastError[t])
          /\ Leave(t, "Panic", NoError, allow_everyone_failure_drops,
                   "panicked")
          /\ UNCHANGED entries
    /\ UNCHANGED << cycles, op, permissions, leaked, runs, heap, lastError, descriptor_ptr,
                    acl_ptr, attrs, sid_ptr, new_acl, attributes, ptr >>

\* Acl::new(&mut entries): SetEntriesInAclW with the one entry
allow_everyone_Acl_new(t) ==
    /\ pc[t] = "Acl_new"
    /\ Issue(t, "SetEntriesInAclW")
    /\ \/ /\ heap' = Alloc(heap, t, "acl", "SetEntriesInAclW", entries[t])
          /\ new_acl' = [new_acl EXCEPT ![t] = Acl_new_result(Fresh(t))]
          /\ pc' = [pc EXCEPT ![t] = "assign_acl"]
          /\ UNCHANGED << failed, result, err, dropq, ret >>
       \/ \E c \in ErrCodes :
          /\ Fail(t, "Acl_new", c, lastError[t])
          /\ Leave(t, "Err", Acl_new_error(c, lastError[t]),
                   allow_everyone_failure_drops, "done")
          /\ UNCHANGED << heap, new_acl >>
    /\ UNCHANGED << cycles, op, permissions, leaked, runs, lastError, descriptor_ptr, acl_ptr,
                    attrs, sid_ptr, entries, attributes, ptr >>

\* Variant: the Sid handed to the local-memory deallocator.
Sid_deallocator_local == "LocalFree"

\* Deallocators the Drop implementations call.
Sid_deallocator == "FreeSid"
Acl_deallocator == "LocalFree"
SecurityDescriptor_deallocator == "LocalFree"

\* Variant: the assignment drops the value it has just been given.
allow_everyone_replaced_acl_new(t) == new_acl[t]

\* The Acl the assignment `attributes.acl = ...` drops: the old value.
allow_everyone_replaced_acl(t) == acl_ptr[t]

\* Variant: the bundle keeps the pointer of the list it has dropped.
allow_everyone_assigned_acl_stale(t) == acl_ptr[t]

\* The Acl the assignment leaves in attributes.acl: the new value.
allow_everyone_assigned_acl(t) == new_acl[t]

\* attributes.acl = <the new Acl>: drops the provisional Acl, stores the new one
allow_everyone_assign_acl(t) ==
    /\ pc[t] = "assign_acl"
    /\ LET old == allow_everyone_replaced_acl(t) IN
         IF old # NULL
         THEN /\ heap' = Free(heap, old, Acl_deallocator)
              /\ Issue(t, Acl_deallocator)
         ELSE UNCHANGED << heap, calls >>
    /\ acl_ptr' = [acl_ptr EXCEPT ![t] = allow_everyone_assigned_acl(t)]
    /\ new_acl' = [new_acl EXCEPT ![t] = NULL]
    /\ pc' = [pc EXCEPT ![t] = "set_dacl"]
    /\ UNCHANGED << cycles, op, permissions, leaked, runs, lastError, descriptor_ptr, attrs,
                    sid_ptr, entries, attributes, result, err, dropq, ret,
                    failed, ptr >>

\* Variant: the Sid forgotten on the successful path.
allow_everyone_ok_drops_forgetting_sid == << >>

\* What allow_everyone drops after Ok(attributes): the local sid (entries
\* and everyone_ace have no Drop implementation that touches the OS).
allow_everyone_ok_drops == << "sid" >>

\* attributes.descriptor.set_dacl(&attributes.acl): SetSecurityDescriptorDacl
SecurityDescriptor_set_dacl(t) ==
    /\ pc[t] = "set_dacl"
    /\ Issue(t, "SetSecurityDescriptorDacl")
    /\ \/ /\ heap' = [heap EXCEPT ![t][descriptor_ptr[t].n].dacl = acl_ptr[t]]
          /\ attributes' = [attributes EXCEPT ![t] = "Some"]
          /\ Leave(t, "Ok", NoError, allow_everyone_ok_drops, "done")
          /\ UNCHANGED << lastError, failed >>
       \/ \E c \in ErrCodes, attached \in BOOLEAN :
          /\ lastError' = [lastError EXCEPT ![t] = c]
          /\ Fail(t, "set_dacl", c, c)
          /\ heap' = IF attached
                     THEN [heap EXCEPT ![t][descriptor_ptr[t].n].dacl = acl_ptr[t]]
                     ELSE heap
          /\ Leave(t, "Err", last_os_error_of(c),
                   allow_everyone_failure_drops, "done")
          /\ UNCHANGED attributes
    /\ UNCHANGED << cycles, op, permissions, leaked, runs, descriptor_ptr, acl_ptr, attrs,
                    sid_ptr, entries, new_acl, ptr >>


-----------------------------------------------------------------------------
\* Drop implementations, run by the drop glue one value at a time

\* The drop glue moves on to the next value, or the thread goes on.
Dropped(t) ==
    /\ dropq' = [dropq EXCEPT ![t] = Tail(@)]
    /\ pc' = [pc EXCEPT ![t] = IF Len(dropq[t]) = 1 THEN ret[t] ELSE "drop"]

\* Drop for Sid, run on the Sid of thread t: FreeSid unless the pointer is
\* null; the pointer is kept
Sid_drop_run(t) ==
    /\ IF sid_ptr[t] # NULL
       THEN /\ heap' = Free(heap, sid_ptr[t], Sid_deallocator)
            /\ Issue(t, Sid_deallocator)
       ELSE UNCHANGED << heap, calls >>
    /\ runs' = [runs EXCEPT ![t].sid = @ + 1]
    /\ UNCHANGED sid_ptr

\* The drop glue drops the local sid
Sid_drop(t) ==
    /\ pc[t] = "drop"
    /\ Head(dropq[t]) = "sid"
    /\ Sid_drop_run(t)
    /\ Dropped(t)
    /\ UNCHANGED << cycles, op, permissions, leaked, lastError, descriptor_ptr,
                    acl_ptr, attrs, entries, new_acl, attributes, result, err,
                    ret, failed, ptr >>

\* Drop for Acl: LocalFree unless the pointer is null; the pointer is kept
Acl_drop(t) ==
    /\ pc[t] = "drop"
    /\ Head(dropq[t]) = "acl"
    /\ IF acl_ptr[t] # NULL
       THEN /\ heap' = Free(heap, acl_ptr[t], Acl_deallocator)
            /\ Issue(t, Acl_deallocator)
       ELSE UNCHANGED << heap, calls >>
    /\ Dropped(t)
    /\ UNCHANGED << cycles, op, permissions, leaked, runs, lastError, descriptor_ptr, acl_ptr,
                    attrs, sid_ptr, entries, new_acl, attributes, result, err,
                    ret, failed, ptr >>

\* Variant: the descriptor's pointer is kept, as the other two Drop
\* implementations keep theirs.
SecurityDescriptor_drop_run_keeping_pointer(t) ==
    /\ IF descriptor_ptr[t] # NULL
       THEN /\ heap' = Free(heap, descriptor_ptr[t], "LocalFree")
            /\ Issue(t, "LocalFree")
       ELSE UNCHANGED << heap, calls >>
    /\ runs' = [runs EXCEPT ![t].descriptor = @ + 1]
    /\ UNCHANGED descriptor_ptr

\* Drop for SecurityDescriptor, run on the descriptor of thread t: LocalFree
\* unless the pointer is null, and the pointer is set to null
SecurityDescriptor_drop_run(t) ==
    /\ IF descriptor_ptr[t] # NULL
       THEN /\ heap' = Free(heap, descriptor_ptr[t], SecurityDescriptor_deallocator)
            /\ Issue(t, SecurityDescriptor_deallocator)
            /\ descriptor_ptr' = [descriptor_ptr EXCEPT ![t] = NULL]
       ELSE UNCHANGED << heap, calls, descriptor_ptr >>
    /\ runs' = [runs EXCEPT ![t].descriptor = @ + 1]

\* The drop glue drops the descriptor of the bundle
SecurityDescriptor_drop(t) ==
    /\ pc[t] = "drop"
    /\ Head(dropq[t]) = "descriptor"
    /\ SecurityDescriptor_drop_run(t)
    /\ Dropped(t)
    /\ UNCHANGED << cycles, op, permissions, leaked, lastError, acl_ptr, attrs,
                    sid_ptr, entries, new_acl, attributes, result, err, ret,
                    failed, ptr >>

\* Repeated runs of the destruction routines on the values now around.
RECURSIVE Redrops(_)
Redrops(T) ==
    IF T = {} THEN 0
    ELSE LET t == CHOOSE x \in T : TRUE
             again(n) == IF n > 1 THEN n - 1 ELSE 0
         IN again(runs[t].sid) + again(runs[t].descriptor) + Redrops(T \ {t})

\* Once the call is over, a caller runs Drop::drop again on the Sid that
\* has been dropped (as ptr::drop_in_place allows); nothing else changes
Sid_drop_again(t) ==
    /\ pc[t] \in {"done", "idle", "panicked"}
    /\ runs[t].sid >= 1
    /\ Redrops(Threads) < MaxRedrops
    /\ Sid_drop_run(t)
    /\ UNCHANGED << pc, cycles, op, permissions, leaked, lastError,
                    descriptor_ptr, acl_ptr, attrs, entries, new_acl,
                    attributes, result, err, dropq, ret, failed, ptr >>

\* Once the call is over, a caller runs Drop::drop again on the
\* SecurityDescriptor that has been dropped; nothing else changes
SecurityDescriptor_drop_again(t) ==
    /\ pc[t] \in {"done", "idle", "panicked"}
    /\ runs[t].descriptor >= 1
    /\ Redrops(Threads) < MaxRedrops
    /\ SecurityDescriptor_drop_run(t)
    /\ UNCHANGED << pc, cycles, op, permissions, leaked, lastError, acl_ptr,
                    attrs, sid_ptr, entries, new_acl, attributes, result, err,
                    dropq, ret, failed, ptr >>

-----------------------------------------------------------------------------
\* The caller's side: the facade is used and destroyed, an error discarded

\* InnerAttributes::as_ptr: the address of self.attrs, a field of the
\* bundle thread t holds.
InnerAttributes_as_ptr(t) == [t |-> t, n |-> 0]

\* Variant: the accessor does not look at the Option.
SecurityAttributes_as_ptr_always(t) == InnerAttributes_as_ptr(t)

\* Variant: the accessor returns null whatever the facade holds.
SecurityAttributes_as_ptr_null(t) == NULL

\* SecurityAttributes::as_ptr
SecurityAttributes_as_ptr(t) ==
    IF attributes[t] = "Some" THEN InnerAttributes_as_ptr(t) ELSE NULL

\* The holder of a facade calls as_ptr
as_ptr(t) ==
    /\ pc[t] = "done"
    /\ result[t] = "Ok"
    /\ ptr' = [ptr EXCEPT ![t] = SecurityAttributes_as_ptr(t)]
    /\ UNCHANGED << pc, cycles, op, permissions, leaked, runs, heap, lastError,
                    descriptor_ptr, acl_ptr, attrs, sid_ptr, entries, new_acl,
                    attributes, result, err, dropq, ret, calls, failed >>

\* The facade goes out of scope: Option<InnerAttributes> is dropped
SecurityAttributes_drop(t) ==
    /\ pc[t] = "done"
    /\ result[t] = "Ok"
    /\ Leave(t, "none", NoError,
             IF attributes[t] = "Some" THEN InnerAttributes_fields ELSE << >>,
             "idle")
    /\ attributes' = [attributes EXCEPT ![t] = "absent"]
    /\ UNCHANGED << cycles, op, permissions, leaked, runs, heap, lastError, descriptor_ptr,
                    acl_ptr, attrs, sid_ptr, entries, new_acl, calls, failed,
                    ptr >>

\* The caller of a failed construction lets go of the io::Error
discard_error(t) ==
    /\ pc[t] = "done"
    /\ result[t] = "Err"
    /\ pc' = [pc EXCEPT ![t] = "idle"]
    /\ result' = [result EXCEPT ![t] = "none"]
    /\ UNCHANGED << cycles, op, permissions, leaked, runs, heap, lastError, descriptor_ptr,
                    acl_ptr, attrs, sid_ptr, entries, new_acl, attributes, err,
                    dropq, ret, calls, failed, ptr >>

-----------------------------------------------------------------------------
Next ==
    \E t \in Threads :
        \/ SecurityAttributes_empty(t)
        \/ allow_everyone_connect(t)
        \/ allow_everyone_create(t)
        \/ SecurityDescriptor_new_LocalAlloc(t)
        \/ SecurityDescriptor_new_Initialize(t)
        \/ InnerAttributes_empty_Acl(t)
        \/ Sid_everyone_sid(t)
        \/ allow_everyone_println(t)
        \/ allow_everyone_Acl_new(t)
        \/ allow_everyone_assign_acl(t)
        \/ SecurityDescriptor_set_dacl(t)
        \/ Sid_drop(t)
        \/ Acl_drop(t)
        \/ SecurityDescriptor_drop(t)
        \/ as_ptr(t)
        \/ SecurityAttributes_drop(t)
        \/ discard_error(t)

Spec == Init /\ [][Next]_vars

\* No call is in progress.
AtRest == \A t \in Threads : pc[t] \in {"done", "idle", "panicked"}

\* The program, stopped in any state it can reach with no call in progress
\* to run the destruction routines of Sid and SecurityDescriptor again on
\* values it has dropped.
NextRedrop ==
    \/ Redrops(Threads) = 0 /\ Next
    \/ AtRest /\ \E t \in Threads : Sid_drop_again(t)
    \/ AtRest /\ \E t \in Threads : SecurityDescriptor_drop_again(t)

SpecRedrop == Init /\ [][NextRedrop]_vars

-----------------------------------------------------------------------------
\* Properties

\* The record of native address a.
At(a) == heap[a.t][a.n]

AllowEveryone == {"allow_everyone_connect", "allow_everyone_create"}

\* The call of thread t is over: it returned, or its panic left the thread.
Ended(t) == pc[t] \in {"done", "panicked"}

\* The deallocator that belongs to each allocator.
Paired(allocator) ==
    IF allocator = "AllocateAndInitializeSid" THEN "FreeSid" ELSE "LocalFree"

\* C1: when a construction has failed and the failure has reached the
\* caller, every native resource allocated during that call has been
\* released.
C1_FailureReleasesAll ==
    \A t \in Threads :
        (Ended(t) /\ result[t] \in {"Err", "Panic"}) => Live(t) = {}

\* C2 as stated: a call of allow_everyone ends with the facade or with an
\* error value for the failing step, whatever the step.
C2_TwoOutcomes ==
    \A t \in Threads :
        (Ended(t) /\ op[t] \in AllowEveryone) =>
            \/ result[t] = "Ok" /\ failed[t] = NoFailure
            \/ result[t] = "Err" /\ failed[t].step # "none"

\* C2 amended: a call of allow_everyone ends with the facade when no step
\* failed, with an error value when descriptor allocation, descriptor
\* initialization, the Sid lookup, the real ACL build or the DACL attach
\* failed, and with a panic when the provisional empty ACL build (or the
\* diagnostic print) failed; a failed step is never followed by success.
C2_ThreeOutcomes ==
    \A t \in Threads :
        /\ (Ended(t) /\ op[t] \in AllowEveryone) =>
              \/ /\ result[t] = "Ok"
                 /\ failed[t] = NoFailure
                 /\ attributes[t] = "Some"
              \/ /\ result[t] = "Err"
                 /\ failed[t].step \in {"LocalAlloc", "InitializeSecurityDescriptor",
                                        "everyone_sid", "Acl_new", "set_dacl"}
                 /\ err[t].kind # "none"
                 /\ pc[t] = "done"
              \/ /\ result[t] = "Panic"
                 /\ failed[t].step \in {"Acl_empty", "println"}
                 /\ pc[t] = "panicked"
        /\ failed[t].step # "none" =>
              /\ result[t] \in {"Err", "Panic", "none"}
              /\ pc[t] \in {"drop", "done", "panicked", "idle"}
              /\ attributes[t] = "absent"

\* A failed provisional ACL build has ended the call in a panic.
C2_Witness ==
    \E t \in Threads :
        pc[t] = "panicked" /\ failed[t].step = "Acl_empty" /\ result[t] = "Panic"

\* C3: no native resource is released more than once.
C3_NoDoubleRelease ==
    \A t \in Threads : \A n \in 1..Len(heap[t]) : heap[t][n].frees <= 1

\* A facade whose four resources were each released once has been
\* destroyed, after an earlier construction of the same thread.
C3_Witness ==
    \E t \in Threads :
        /\ pc[t] = "idle"
        /\ cycles[t] >= 2
        /\ Len(heap[t]) = 4
        /\ \A n \in 1..4 : heap[t][n].frees = 1

\* C4: once a facade that allow_everyone built has been destroyed, every
\* native resource allocated by its construction has been released: the
\* thread has as many unreleased resources as before the construction.
C4_DestroyedFacadeReleasesAll ==
    \A t \in Threads :
        (pc[t] = "idle" /\ op[t] \in AllowEveryone /\ failed[t] = NoFailure) =>
            /\ Live(t) = {}
            /\ \A n \in 1..Len(heap[t]) : heap[t][n].frees = 1

\* The second construct/destroy cycle of a thread is over, with the
\* descriptor, both lists and the Sid allocated in it.
C4_Witness ==
    \E t \in Threads :
        /\ pc[t] = "idle"
        /\ op[t] \in AllowEveryone
        /\ failed[t] = NoFailure
        /\ cycles[t] >= 2
        /\ { heap[t][n].kind : n \in 1..Len(heap[t]) } = {"descriptor", "acl", "sid"}
        /\ Len(heap[t]) = 4

\* C5: a resource is released only by the deallocator paired with the
\* allocator it came from.
C5_PairedDeallocators ==
    \A t \in Threads : \A n \in 1..Len(heap[t]) :
        heap[t][n].freedBy \subseteq {Paired(heap[t][n].allocator)}

\* A Sid, a list and a descriptor buffer have all been released.
C5_Witness ==
    \E t \in Threads :
        \A k \in {"sid", "acl", "descriptor"} :
            \E n \in 1..Len(heap[t]) :
                heap[t][n].kind = k /\ heap[t][n].freedBy # {}

\* C6: a descriptor buffer that is unreleased and has a list attached
\* refers to the list its bundle owns, and that list is unreleased.
C6_AttachedListAlive ==
    \A t \in Threads : \A n \in 1..Len(heap[t]) :
        (heap[t][n].kind = "descriptor" /\ heap[t][n].live
            /\ heap[t][n].dacl # NULL) =>
                /\ descriptor_ptr[t] = [t |-> t, n |-> n]
                /\ heap[t][n].dacl = acl_ptr[t]
                /\ At(acl_ptr[t]).live

\* A facade is held whose descriptor has the real list attached, the
\* provisional list having been released when it was replaced.
C6_Witness ==
    \E t \in Threads :
        /\ pc[t] = "done"
        /\ result[t] = "Ok"
        /\ attributes[t] = "Some"
        /\ At(descriptor_ptr[t]).dacl = acl_ptr[t]
        /\ \E n \in 1..Len(heap[t]) :
              /\ heap[t][n].kind = "acl"
              /\ heap[t][n].entries = << >>
              /\ ~heap[t][n].live

\* C7: the list of a bundle is never released while the descriptor buffer
\* of the same bundle is unreleased.
C7_DescriptorReleasedFirst ==
    \A t \in Threads :
        (acl_ptr[t] # NULL /\ ~At(acl_ptr[t]).live) => descriptor_ptr[t] = NULL

\* A bundle is being torn down: its descriptor buffer is released, its
\* list is next and still unreleased.
C7_Witness ==
    \E t \in Threads :
        /\ pc[t] = "drop"
        /\ Head(dropq[t]) = "acl"
        /\ acl_ptr[t] # NULL
        /\ At(acl_ptr[t]).live
        /\ descriptor_ptr[t] = NULL
        /\ \E n \in 1..Len(heap[t]) :
              heap[t][n].kind = "descriptor" /\ heap[t][n].frees = 1

\* C8: while a non-empty facade is held, the descriptor reference of its
\* attributes record is not null, is the descriptor buffer of the same
\* bundle, and that buffer is unreleased.
C8_RecordRefersToDescriptor ==
    \A t \in Threads :
        (pc[t] = "done" /\ result[t] = "Ok" /\ attributes[t] = "Some") =>
            /\ attrs[t].lpSecurityDescriptor # NULL
            /\ attrs[t].lpSecurityDescriptor = descriptor_ptr[t]
            /\ At(descriptor_ptr[t]).kind = "descriptor"
            /\ At(descriptor_ptr[t]).live

\* A non-empty facade is held and its accessor has been called.
C8_Witness ==
    \E t \in Threads :
        /\ pc[t] = "done"
        /\ attributes[t] = "Some"
        /\ ptr[t] = InnerAttributes_as_ptr(t)

\* C9 as stated: every failing step yields an error that carries an OS
\* code: the last-error code for descriptor allocation, descriptor
\* initialization, the Sid lookup and the DACL attach, the status the
\* build call returned for the ACL builds.
C9_EveryFailureHasOsCode ==
    \A t \in Threads :
        /\ failed[t].step \in {"LocalAlloc", "InitializeSecurityDescriptor",
                               "everyone_sid", "set_dacl"} =>
              err[t] = [kind |-> "Os", code |-> failed[t].lastError]
        /\ failed[t].step \in {"Acl_empty", "Acl_new"} =>
              err[t] = [kind |-> "Os", code |-> failed[t].code]

\* C9 amended: descriptor initialization, the Sid lookup and the DACL
\* attach report the last-error code, the ACL builds report the status the
\* build call returned, and a failed descriptor buffer allocation reports
\* an error of kind Other that carries no OS code.
C9_FailureCodes ==
    \A t \in Threads :
        /\ failed[t].step \in {"InitializeSecurityDescriptor", "everyone_sid",
                               "set_dacl"} =>
              /\ err[t] = [kind |-> "Os", code |-> failed[t].lastError]
              /\ failed[t].lastError = failed[t].code
        /\ failed[t].step \in {"Acl_empty", "Acl_new"} =>
              err[t] = [kind |-> "Os", code |-> failed[t].code]
        /\ failed[t].step = "LocalAlloc" =>
              err[t] = [kind |-> "Other", code |-> 0]

\* The real ACL build has failed with a status that is not the thread's
\* last-error value, and the error carries the status.
C9_Witness ==
    \E t \in Threads :
        /\ failed[t].step = "Acl_new"
        /\ failed[t].code # failed[t].lastError
        /\ failed[t].lastError # 0
        /\ err[t].code = failed[t].code

\* C10: SecurityAttributes::empty() succeeds at once, calls the OS for
\* nothing, and the accessor of its facade returns null.
C10_EmptyFacade ==
    \A t \in Threads :
        op[t] = "empty" =>
            /\ pc[t] \in {"done", "idle"}
            /\ failed[t] = NoFailure
            /\ calls[t] = << >>
            /\ heap[t] = << >>
            /\ ptr[t] \in {UNSET, NULL}
            /\ pc[t] = "done" =>
                  /\ result[t] = "Ok"
                  /\ attributes[t] = "None"

\* The accessor of an empty facade has been called.
C10_Witness ==
    \E t \in Threads :
        op[t] = "empty" /\ pc[t] = "done" /\ ptr[t] = NULL

\* C11: when no step of allow_everyone_connect or allow_everyone_create has
\* failed, the call returns a facade, and the accessor of that facade
\* returns a non-null pointer, the address of its attributes record.
C11_SuccessGivesFacade ==
    \A t \in Threads :
        (Ended(t) /\ op[t] \in AllowEveryone /\ failed[t] = NoFailure) =>
            /\ pc[t] = "done"
            /\ result[t] = "Ok"
            /\ attributes[t] = "Some"
            /\ SecurityAttributes_as_ptr(t) # NULL
            /\ ptr[t] \in {UNSET, InnerAttributes_as_ptr(t)}

\* Both entry points have returned a facade whose accessor has been called.
C11_Witness ==
    /\ \E t \in Threads :
          op[t] = "allow_everyone_connect" /\ pc[t] = "done" /\ ptr[t] # UNSET
    /\ \E t \in Threads :
          op[t] = "allow_everyone_create" /\ pc[t] = "done" /\ ptr[t] # UNSET

\* The lists served to t for an empty batch.
EmptyLists(t) ==
    { n \in 1..Len(heap[t]) : heap[t][n].kind = "acl" /\ heap[t][n].entries = << >> }

\* Thread t holds the Acl that Acl::empty() returned, not yet replaced.
HoldsEmptyAcl(t) == pc[t] \in {"everyone_sid", "println", "Acl_new", "assign_acl"}

\* C12 as stated: an Acl built from zero entries by a build call that
\* reported success has a non-null list reference.
C12_EmptyAclNonNull ==
    \A t \in Threads : HoldsEmptyAcl(t) => acl_ptr[t] # NULL

\* C12 amended: an Acl built from zero entries by a build call that
\* reported success is returned, not an error, and its list reference is
\* the pointer the build call stored: the live empty list when the OS
\* allocated one, null when the OS handed back no list.
C12_EmptyAclHoldsReturnedPointer ==
    \A t \in Threads :
        HoldsEmptyAcl(t) =>
            /\ result[t] = "none"
            /\ failed[t] = NoFailure
            /\ IF EmptyLists(t) = {}
               THEN acl_ptr[t] = NULL
               ELSE /\ acl_ptr[t].t = t
                    /\ acl_ptr[t].n \in EmptyLists(t)
                    /\ At(acl_ptr[t]).live

\* One thread holds an empty Acl without a list, the other one with a list.
C12_Witness ==
    /\ \E t \in Threads : pc[t] = "everyone_sid" /\ acl_ptr[t] = NULL
    /\ \E t \in Threads : pc[t] = "everyone_sid" /\ acl_ptr[t] # NULL

\* The native addresses the values of thread t hold or refer to.
Pointers(t) ==
    ({ descriptor_ptr[t], acl_ptr[t], sid_ptr[t], new_acl[t],
       attrs[t].lpSecurityDescriptor }
     \cup { heap[t][n].dacl : n \in 1..Len(heap[t]) }
     \cup { entries[t][i].ptstrName : i \in 1..Len(entries[t]) }) \ {NULL}

\* Thread t holds a facade that allow_everyone_connect built.
HoldsConnectFacade(t) ==
    /\ op[t] = "allow_everyone_connect"
    /\ pc[t] = "done"
    /\ attributes[t] = "Some"

\* The record, the descriptor and the attached list of t's facade are valid.
FacadeValid(t) ==
    /\ attrs[t].lpSecurityDescriptor = descriptor_ptr[t]
    /\ descriptor_ptr[t] # NULL
    /\ At(descriptor_ptr[t]).live
    /\ At(descriptor_ptr[t]).dacl = acl_ptr[t]
    /\ acl_ptr[t] # NULL
    /\ At(acl_ptr[t]).live

\* C13: whatever the interleaving of two threads, the values of a thread
\* refer only to native resources allocated by its own call, no address is
\* held by both threads, a facade built by allow_everyone_connect stays
\* valid whatever the other thread does (its own facade destroyed or not),
\* and the resources of a thread change only in steps of that thread.
C13_IndependentFacades ==
    /\ [](\A t \in Threads :
            /\ \A a \in Pointers(t) : a.t = t /\ a.n \in 1..Len(heap[t])
            /\ \A u \in Threads \ {t} : Pointers(t) \cap Pointers(u) = {}
            /\ HoldsConnectFacade(t) => FacadeValid(t))
    /\ [][\A t \in Threads :
            heap'[t] # heap[t] =>
                (calls'[t] # calls[t] \/ cycles'[t] # cycles[t])]_vars

\* One thread holds its facade, built by allow_everyone_connect, after the
\* other has destroyed its own, built the same way.
C13_Witness ==
    \E t \in Threads : \E u \in Threads \ {t} :
        /\ HoldsConnectFacade(t)
        /\ FacadeValid(t)
        /\ op[u] = "allow_everyone_connect"
        /\ pc[u] = "idle"
        /\ failed[u] = NoFailure
        /\ Len(heap[u]) = 4
        /\ Live(u) = {}

\* The batch es is the one entry the entry point of thread t asks for.
IsEveryoneBatch(t, es) ==
    /\ Len(es) = 1
    /\ es[1].grfAccessMode = "SET_ACCESS"
    /\ es[1].grfInheritance = 0
    /\ es[1].TrusteeForm = "TRUSTEE_IS_SID"
    /\ es[1].ptstrName = sid_ptr[t]
    /\ sid_ptr[t] # NULL
    /\ At(sid_ptr[t]).kind = "sid"
    /\ es[1].grfAccessPermissions =
          IF op[t] = "allow_everyone_connect"
          THEN {"GENERIC_READ", "FILE_WRITE_DATA"}
          ELSE {"GENERIC_READ", "GENERIC_WRITE"}

\* C14: the batch submitted to the real ACL build holds exactly one entry,
\* with access mode "set", no inheritance, the looked-up Sid as trustee and
\* the mask of the entry point: read + write-data for
\* allow_everyone_connect, generic read + generic write for
\* allow_everyone_create.
C14_SubmittedEntry ==
    \A t \in Threads :
        /\ pc[t] = "Acl_new" => IsEveryoneBatch(t, entries[t])
        /\ \A n \in 1..Len(heap[t]) :
              (heap[t][n].kind = "acl" /\ n \notin EmptyLists(t)) =>
                  IsEveryoneBatch(t, heap[t][n].entries)

\* A list has been built from the batch of each of the two entry points.
C14_Witness ==
    \A o \in AllowEveryone :
        \E t \in Threads :
            /\ op[t] = o
            /\ \E n \in 1..Len(heap[t]) :
                  heap[t][n].kind = "acl" /\ Len(heap[t][n].entries) = 1

\* C15: running the destruction routine of a Sid a second time on the same
\* value issues no release call: the identifier is released once however
\* often the routine runs.
C15_SidDropIdempotent ==
    \A t \in Threads : \A n \in 1..Len(heap[t]) :
        heap[t][n].kind = "sid" => heap[t][n].frees <= 1

\* C16: the first destruction of a SecurityDescriptor releases the buffer
\* and sets the reference to null, and running the routine again on the
\* same value releases nothing: the buffer is released once however often
\* the routine runs.
C16_DescriptorDropIdempotent ==
    \A t \in Threads :
        runs[t].descriptor >= 1 =>
            /\ descriptor_ptr[t] = NULL
            /\ \A n \in 1..Len(heap[t]) :
                  heap[t][n].kind = "descriptor" =>
                      /\ heap[t][n].frees = 1
                      /\ heap[t][n].freedBy = {"LocalFree"}
            /\ Len(SelectSeq(calls[t], LAMBDA c : c = "LocalFree")) =
                  Cardinality({ n \in 1..Len(heap[t]) :
                      heap[t][n].kind \in {"descriptor", "acl"}
                          /\ heap[t][n].frees = 1 })

\* The destruction routine has run twice on a descriptor whose buffer had
\* been allocated.
C16_Witness ==
    \E t \in Threads :
        /\ runs[t].descriptor = 2
        /\ \E n \in 1..Len(heap[t]) : heap[t][n].kind = "descriptor"

\* The Sid looked up by the call of thread t, if any.
Sids(t) == { n \in 1..Len(heap[t]) : heap[t][n].kind = "sid" }

\* C17: the Sid the entry refers to is unreleased when the entry is about
\* to be submitted to the ACL build; a Sid is released only once that build
\* call has returned (or the call is given up before the build); and once
\* allow_everyone is over, a Sid that was looked up has been released
\* exactly once.
C17_SidOutlivesEntry ==
    \A t \in Threads :
        /\ pc[t] = "Acl_new" =>
              /\ sid_ptr[t] # NULL
              /\ At(sid_ptr[t]).live
              /\ \A i \in 1..Len(entries[t]) : entries[t][i].ptstrName = sid_ptr[t]
        /\ \A n \in Sids(t) :
              /\ ~heap[t][n].live =>
                    /\ pc[t] \notin {"println", "Acl_new", "assign_acl", "set_dacl"}
                    /\ \/ Len(SelectSeq(calls[t], LAMBDA c : c = "SetEntriesInAclW")) = 2
                       \/ failed[t].step = "println"
              /\ (Ended(t) \/ pc[t] = "idle") => heap[t][n].frees = 1

\* The real ACL build of one thread has failed and that of the other has
\* succeeded; both calls are over and each has released its Sid.
C17_Witness ==
    \E t \in Threads : \E u \in Threads \ {t} :
        /\ pc[t] = "done" /\ failed[t].step = "Acl_new"
        /\ \E n \in Sids(t) : heap[t][n].frees = 1
        /\ pc[u] = "done" /\ result[u] = "Ok"
        /\ \E n \in Sids(u) : heap[u][n].frees = 1

\* The steps of allow_everyone, in the order of the source.
StepOrder ==
    << "LocalAlloc", "InitializeSecurityDescriptor", "SetEntriesInAclW",
       "AllocateAndInitializeSid", "println", "SetEntriesInAclW",
       "SetSecurityDescriptorDacl" >>

\* The place in StepOrder of the step that failed.
StepIndex(step) ==
    CASE step = "LocalAlloc" -> 1
      [] step = "InitializeSecurityDescriptor" -> 2
      [] step = "Acl_empty" -> 3
      [] step = "everyone_sid" -> 4
      [] step = "println" -> 5
      [] step = "Acl_new" -> 6
      [] step = "set_dacl" -> 7

\* The calls of thread t that are not release calls.
StepsIssued(t) == SelectSeq(calls[t], LAMBDA c : c \notin {"FreeSid", "LocalFree"})

\* C18: the steps of allow_everyone are issued in the fixed order descriptor
\* allocation, descriptor initialization, provisional empty ACL build, Sid
\* lookup, real ACL build, DACL attach, each at most once; once a step has
\* failed it is the last step issued, only release calls follow it.
C18_FailFast ==
    \A t \in Threads :
        op[t] \in AllowEveryone =>
            /\ Len(StepsIssued(t)) <= Len(StepOrder)
            /\ StepsIssued(t) = SubSeq(StepOrder, 1, Len(StepsIssued(t)))
            /\ failed[t].step # "none" =>
                  Len(StepsIssued(t)) = StepIndex(failed[t].step)

\* The Sid lookup has failed and the descriptor buffer and the provisional
\* list have been released after it; the call is over.
C18_Witness ==
    \E t \in Threads :
        /\ pc[t] = "done"
        /\ failed[t].step = "everyone_sid"
        /\ calls[t] = << "LocalAlloc", "InitializeSecurityDescriptor",
                         "SetEntriesInAclW", "AllocateAndInitializeSid",
                         "LocalFree", "LocalFree" >>

====
